---------------------------- MODULE Spec2Model ----------------------------
(***************************************************************************)
(* Model of the BID monitor server (src/main.py): the day-scoped ledger of *)
(* already posted athletes, the CAPTCHA-gated search loop, the per-record  *)
(* posting pipeline and the scheduler/supervisor around them.              *)
(*                                                                         *)
(* Three specifications share the variables:                               *)
(*   Spec       one cycle at a time, every step of job_wrapper in detail;  *)
(*   SpecBusca  the search loop alone, for every limit of attempts;        *)
(*   SpecSup    the threads of iniciar_monitoramento / monitor_loop /      *)
(*              parar_monitoramento, a cycle reduced to its begin and end. *)
(***************************************************************************)
EXTENDS Naturals, Integers, Sequences, FiniteSets, TLC

(***************************************************************************)
(* Bounds of the model.                                                    *)
(***************************************************************************)
\* last instant of the clock; one instant is one schedule period
MaxRelogio == 2
\* instants per calendar day
TicksPorDia == 2
\* longest raw batch the search returns
MaxLote == 2
\* background threads that may ever be launched
MaxThreads == 2

(***************************************************************************)
(* Program constants.                                                      *)
(***************************************************************************)
\* self.ultimo_dia_verificado = None
None == -1
\* min(MAX_TENTATIVAS, 50)
LimiteServidor == 50
\* len(captcha_text) < 3
MinCaptcha == 3
\* schedule.every(10).minutes, in schedule periods
Intervalo == 1

Min(a, b) == IF a <= b THEN a ELSE b

\* datetime.now().strftime('%Y-%m-%d') of an instant; the process was started
\* in the last period of a day
Dia(t) == (t + TicksPorDia - 1) \div TicksPorDia

(***************************************************************************)
(* Records of the remote source.  A well-formed record carries the three   *)
(* key fields and a display name; Malformado lacks keys, so reading them   *)
(* raises KeyError.                                                        *)
(***************************************************************************)
Codigos == {"1", "2"}
Contratos == {"7"}
Datas == {"d"}
Nomes == {"A", "B"}

Atletas ==
    [codigo_atleta : Codigos, contrato_numero : Contratos,
     data_publicacao : Datas, nome : Nomes]

\* the records the remote source lists
Listados == {a \in Atletas : a.nome = "A"}

Malformado == [nome |-> "A"]

Registros == Listados \cup {Malformado}

ChavesHash == {"codigo_atleta", "contrato_numero", "data_publicacao"}

BemFormado(atleta) == (ChavesHash \cup {"nome"}) \subseteq DOMAIN atleta

\* hashlib.md5(...).hexdigest(): a digest taken as collision free
MD5(s) == "md5:" \o s

\* the name taken into the identifier as well
gerar_hash_com_nome(atleta) ==
    MD5(atleta.codigo_atleta \o "_" \o atleta.contrato_numero
        \o "_" \o atleta.data_publicacao \o "_" \o atleta.nome)

\* the digest of "<codigo>_<contrato>_<data>"
gerar_hash_atleta(atleta) ==
    MD5(atleta.codigo_atleta \o "_" \o atleta.contrato_numero
        \o "_" \o atleta.data_publicacao)

Hashes == {gerar_hash_atleta(a) : a \in Atletas}

RECURSIVE SeqAte(_, _)
SeqAte(S, n) ==
    IF n = 0 THEN {<<>>}
    ELSE LET menores == SeqAte(S, n - 1)
         IN  menores \cup {Append(s, x) : s \in {m \in menores : Len(m) = n - 1}, x \in S}

\* what resp.json() may hold: a list of records
Lotes == SeqAte(Registros, MaxLote)

(***************************************************************************)
(* The persisted ledger store (atletas_postados.json).                     *)
(***************************************************************************)
Vazio == [h \in {} |-> h]
Ausente == [kind |-> "absent", dados |-> Vazio]
Corrompido == [kind |-> "corrupt", dados |-> Vazio]
Gravado(historico) == [kind |-> "ok", dados |-> historico]

\* the entry written for a posted record
Entrada(atleta, agora) ==
    [nome |-> atleta.nome,
     codigo_atleta |-> atleta.codigo_atleta,
     contrato_numero |-> atleta.contrato_numero,
     data_publicacao |-> atleta.data_publicacao,
     data_postagem |-> agora,
     hash |-> gerar_hash_atleta(atleta)]

\* one more successful publish of a fingerprint
MaisUm(n) == IF n < 2 THEN n + 1 ELSE n

\* the ledger mapping after a successful postar_no_x of the record
Registrar(ledger, a, agora) == (gerar_hash_atleta(a) :> Entrada(a, agora)) @@ ledger

\* the store removed, the baseline left as it was
limpar_historico_sem_baseline(ultimo, dia_atual, arq, removeOK) ==
    IF ultimo = None
    THEN [ultimo |-> dia_atual, arq |-> arq, ret |-> FALSE]
    ELSE IF dia_atual # ultimo
         THEN IF arq.kind # "absent" /\ ~removeOK
              THEN [ultimo |-> ultimo, arq |-> arq, ret |-> FALSE]
              ELSE [ultimo |-> ultimo, arq |-> Ausente, ret |-> TRUE]
         ELSE [ultimo |-> ultimo, arq |-> arq, ret |-> FALSE]

\* no baseline taken for a date: the first call removes the store too
limpar_historico_na_primeira(ultimo, dia_atual, arq, removeOK) ==
    IF dia_atual # ultimo
    THEN IF arq.kind # "absent" /\ ~removeOK
         THEN [ultimo |-> ultimo, arq |-> arq, ret |-> FALSE]
         ELSE [ultimo |-> dia_atual, arq |-> Ausente, ret |-> TRUE]
    ELSE [ultimo |-> ultimo, arq |-> arq, ret |-> FALSE]

\* limpar_historico_se_novo_dia: the new baseline, the store and the value returned
limpar_historico_se_novo_dia(ultimo, dia_atual, arq, removeOK) ==
    IF ultimo = None
    THEN [ultimo |-> dia_atual, arq |-> arq, ret |-> FALSE]
    ELSE IF dia_atual # ultimo
         THEN IF arq.kind # "absent" /\ ~removeOK
              THEN [ultimo |-> ultimo, arq |-> arq, ret |-> FALSE]
              ELSE [ultimo |-> dia_atual, arq |-> Ausente, ret |-> TRUE]
         ELSE [ultimo |-> ultimo, arq |-> arq, ret |-> FALSE]

\* carregar_historico: {} when the store is absent, unreadable or unparsable
carregar_historico(arq, leituraOK) ==
    IF arq.kind = "ok" /\ leituraOK THEN arq.dados ELSE Vazio

LeituraFalhou(arq, leituraOK) ==
    arq.kind = "corrupt" \/ (arq.kind = "ok" /\ ~leituraOK)

\* salvar_historico, open(..., 'w'): the file is created or cut to no content,
\* which json.load cannot parse; a failed open leaves the store as it was
abrir_escrita(arq, abriu) == IF abriu THEN Corrompido ELSE arq

\* salvar_historico, json.dump: the mapping written in full, or a part of it
json_dump(historico, gravou) == IF gravou THEN Gravado(historico) ELSE Corrompido

\* every record of the batch taken as new
NovosSemFiltro(lote, historico) == lote

\* the records of the batch absent from the ledger, in batch order
NovosAtletas(lote, historico) ==
    SelectSeq(lote, LAMBDA a : gerar_hash_atleta(a) \notin DOMAIN historico)

\* calcular_proxima_execucao
calcular_proxima_execucao(agendados, agora) ==
    IF agendados # <<>> THEN agendados[1].next_run ELSE agora + Intervalo


(***************************************************************************)
(* What the external capabilities may answer.                              *)
(***************************************************************************)
\* MAX_TENTATIVAS of the search module where the processing is studied
ConfiguracoesMax == {1}
\* the limits below, at and above the server limit
ConfiguracoesMaxBusca == {1, 2, LimiteServidor, LimiteServidor + 1}

\* ocr_captcha: texts of 0, 2, 3 and 4 characters
Textos == {"", "ab", "abc", "abcd"}

\* resp.json(): a list of records, a JSON value that is no list, or no JSON
Corpos ==
    {[forma |-> "lista", itens |-> l] : l \in Lotes}
    \cup {[forma |-> "objeto", itens |-> <<>>], [forma |-> "invalido", itens |-> <<>>]}

\* the bodies of a remote source that lists no record
CorposSemRegistros == {c \in Corpos : c.itens = <<>>}

\* the bodies of a remote source that lists one record at most
CorposDeUm == {c \in Corpos : Len(c.itens) <= 1}

\* tentar_busca: raises, or a response whose text holds "captcha" or not
Buscas(corpos) ==
    {[tipo |-> "erro", captcha |-> FALSE, corpo |-> [forma |-> "invalido", itens |-> <<>>]]}
    \cup {[tipo |-> "resp", captcha |-> TRUE, corpo |-> [forma |-> "invalido", itens |-> <<>>]]}
    \cup {[tipo |-> "resp", captcha |-> FALSE, corpo |-> c] : c \in corpos}

\* a path returned by baixar_foto_atleta / criar_card_atleta, None, or an exception
SemCaminho == "None"
SaidasCaminho == {"caminho", "None", "erro"}
\* postar_no_x
SaidasPostagem == {"True", "False", "erro"}

\* the background threads, and every context that may run job_wrapper
Threads == 1..MaxThreads
Contextos == Threads \cup {0}
Principal == 0

VARIABLES
    \* BIDMonitorServer fields
    execucoes, ultima_execucao, proxima_execucao, ultimo_dia_verificado, running,
    \* the environment: store file, clock, schedule (next_run of each job), configuration
    arquivo, relogio, jobs, MAX_TENTATIVAS,
    fonte,          \* the bodies the remote source answers an accepted search with
    \* the cycle in progress: position, who called job_wrapper, locals
    pc, disparo, historico, tentativa, novos_atletas, idx,
    postados_com_sucesso, foto_path, card_path, sucesso, resultado,
    novos_postados, \* what processar_resultados returned (None: it has not)
    csrf_token,     \* the session token of this cycle: "None" before
                    \* pegar_csrf_token, "falhou" when it raised
    \* history of the run
    pubs,           \* successful publishes per fingerprint since the last rollover
                    \* (2 stands for two or more)
    ioFalhou,       \* a ledger read or write failed since the last rollover
    retornoLimpeza, \* value returned by the last limpar_historico_se_novo_dia
    feitas,         \* CAPTCHA attempts made in this cycle
    buscou,         \* a search request was submitted in this cycle
    soCurto,        \* every attempt of this cycle got an OCR text below MinCaptcha
    processou,      \* times processar_resultados was called in this cycle
    esperados,      \* records of the batch handed over that the ledger did not hold
    todosVistos,    \* the batch handed over had records, all of them in the ledger
    snap,           \* ledger mapping and store when processar_resultados was entered
    chamou,         \* capabilities invoked for the current record; the cleanup call of the last one
    postagens,      \* publish calls made for this batch
    propagou,       \* an exception left job_wrapper
    \* the supervisor's threads
    mainpc,         \* the context that calls iniciar_monitoramento
    tpc,            \* each background thread's place in monitor_loop
    emJob,          \* the job each context is running job_wrapper for (0: none)
    inicios,        \* calls of iniciar_monitoramento that went past the running check
    devido,         \* the job run_pending found due in each thread and has yet to run (0: none)
    \* gerar_hash_atleta on its own
    par,            \* the records handed to gerar_hash_atleta, one after the other
    digests         \* what it returned for them, in that order

selfVars == <<execucoes, ultima_execucao, proxima_execucao, ultimo_dia_verificado, running>>
envVars == <<arquivo, relogio, jobs, MAX_TENTATIVAS, fonte>>
cicloVars ==
    <<pc, disparo, historico, tentativa, novos_atletas, idx,
      postados_com_sucesso, foto_path, card_path, sucesso, resultado,
      novos_postados, csrf_token>>
histVars ==
    <<pubs, ioFalhou, retornoLimpeza, feitas, buscou, soCurto,
      processou, esperados, todosVistos, snap, chamou, postagens, propagou>>
supVars == <<mainpc, tpc, emJob, inicios, devido>>
hashVars == <<par, digests>>
vars == <<selfVars, envVars, cicloVars, histVars, supVars, hashVars>>

\* schedule.every(10).minutes.do(...) at instant agora: the job and its next_run
Job(id, agora) == [id |-> id, next_run |-> agora + Intervalo]

\* Job.run after the call of the job function: the job's next_run is set again;
\* a job that schedule.clear() removed is no longer in the list
Reagendar(agendados, id, agora) ==
    [k \in DOMAIN agendados |->
        IF agendados[k].id = id THEN Job(id, agora) ELSE agendados[k]]

\* no except clause around the cycle
PropagaTudo(erro) == erro

\* except Exception in job_wrapper: does the error leave job_wrapper?
Propaga(erro) == FALSE

(***************************************************************************)
(* Spec: the state right after iniciar_monitoramento registered the job,   *)
(* before its first, direct call of job_wrapper.                           *)
(***************************************************************************)
ArquivosIniciais ==
    {Ausente, Gravado(Vazio)}
    \cup {Gravado(Registrar(Vazio, a, 0)) : a \in {x \in Listados : x.codigo_atleta = "1"}}

Partida ==
    /\ execucoes = 0
    /\ ultima_execucao = None
    /\ proxima_execucao = None
    /\ ultimo_dia_verificado = None
    /\ running = FALSE
    /\ relogio = 0
    /\ pc = "idle"
    /\ disparo = "start"
    /\ historico = Vazio
    /\ tentativa = 0
    /\ csrf_token = "None"
    /\ novos_atletas = <<>>
    /\ idx = 0
    /\ postados_com_sucesso = 0
    /\ foto_path = SemCaminho
    /\ card_path = SemCaminho
    /\ sucesso = FALSE
    /\ resultado = "None"
    /\ novos_postados = None
    /\ ioFalhou = FALSE
    /\ retornoLimpeza = FALSE
    /\ feitas = 0
    /\ buscou = FALSE
    /\ soCurto = TRUE
    /\ processou = 0
    /\ esperados = 0
    /\ todosVistos = FALSE
    /\ snap = [hist |-> Vazio, arq |-> Ausente]
    /\ chamou = {}
    /\ postagens = 0
    /\ propagou = FALSE
    /\ tpc = [t \in Threads |-> "none"]
    /\ emJob = [c \in Contextos |-> 0]
    /\ devido = [t \in Threads |-> 0]
    /\ par = <<>>
    /\ digests = <<>>

\* the store a process finds when it starts: none, or what an earlier run of
\* the same program left, each entry posted by that run
PartidaArquivo(arquivos) ==
    /\ arquivo \in arquivos
    /\ pubs = [h \in Hashes |-> IF h \in DOMAIN arquivo.dados THEN 1 ELSE 0]

\* iniciar_monitoramento has registered the job and is about to call job_wrapper
AposAgendar ==
    /\ mainpc = "job_inicial"
    /\ inicios = 1
    /\ jobs = <<Job(1, 0)>>

Init ==
    /\ Partida
    /\ PartidaArquivo(ArquivosIniciais)
    /\ AposAgendar
    /\ MAX_TENTATIVAS \in ConfiguracoesMax
    /\ fonte = Corpos

\* the limit of the configuration taken as it is
LimiteSemTeto(max) == max

\* range(1, min(MAX_TENTATIVAS, 50) + 1): the last attempt of a cycle
LimiteTentativas(max) == Min(max, LimiteServidor)

\* return True left out after processar_resultados: the loop goes on
FimBuscaSemReturn(res) ==
    /\ resultado' = res
    /\ pc' = IF res = "True" THEN "tentativa" ELSE "fim"

\* buscar_e_processar_novos is over (it returned, or raised into the except of
\* job_wrapper); the tail of job_wrapper is ProximaExecucao
FimBusca(res) ==
    /\ resultado' = res
    /\ pc' = "fim"

\* an exception that leaves job_wrapper ends the thread that called it
Crash ==
    /\ resultado' = "erro"
    /\ pc' = "crash"


\* csrf_token = pegar_csrf_token(): a token, or an exception
pegar_csrf_token(tokenOK) == IF tokenOK THEN "token" ELSE "falhou"

\* the attempts go on without a token
ErroGeralIgnorado(token) == FALSE

\* the exception of pegar_csrf_token reaches the outer except of the cycle
ErroGeral(token) == token = "falhou"

(***************************************************************************)
(* job_wrapper, up to the token: counter and timestamp, day rollover,      *)
(* criar_pastas, load of the ledger, obter_data_hoje, pegar_csrf_token.    *)
(* The direct call of iniciar_monitoramento comes first; later calls are   *)
(* made by the scheduler when the job falls due (the loop polls every 30   *)
(* seconds, a small part of a period).                                     *)
(***************************************************************************)
job_wrapper ==
    /\ pc = "idle"
    /\ jobs # <<>>
    /\ \E removeOK \in BOOLEAN, pastasOK \in BOOLEAN, leituraOK \in BOOLEAN,
          dataOK \in BOOLEAN, tokenOK \in BOOLEAN :
        LET quem == IF execucoes = 0 THEN "start" ELSE "agenda"
            \* the scheduler runs the job in the period in which it falls due
            agora == IF quem = "start" THEN relogio ELSE jobs[1].next_run
            limpeza == limpar_historico_se_novo_dia(ultimo_dia_verificado, Dia(agora),
                                                arquivo, removeOK)
            carregou == pastasOK
            \* raised outside the try of buscar_e_processar_novos
            erro == ~pastasOK \/ ~dataOK
            limite == LimiteTentativas(MAX_TENTATIVAS)
        IN  /\ agora <= MaxRelogio
            /\ execucoes' = execucoes + 1
            /\ ultima_execucao' = agora
            /\ relogio' = agora
            /\ disparo' = quem
            /\ ultimo_dia_verificado' = limpeza.ultimo
            /\ arquivo' = limpeza.arq
            /\ retornoLimpeza' = limpeza.ret
            /\ pubs' = IF limpeza.ret THEN [h \in Hashes |-> 0] ELSE pubs
            /\ historico' = IF carregou THEN carregar_historico(limpeza.arq, leituraOK)
                            ELSE Vazio
            /\ ioFalhou' = ((~limpeza.ret /\ ioFalhou)
                            \/ (carregou /\ LeituraFalhou(limpeza.arq, leituraOK)))
            /\ propagou' = (propagou \/ (erro /\ Propaga(erro)))
            /\ csrf_token' = IF erro THEN "None" ELSE pegar_csrf_token(tokenOK)
            /\ IF erro
               THEN /\ tentativa' = 0
                    /\ IF Propaga(erro) THEN Crash ELSE FimBusca("erro")
               ELSE IF ErroGeral(pegar_csrf_token(tokenOK)) \/ limite < 1
                    THEN /\ tentativa' = 0
                         /\ FimBusca("False")
                    ELSE /\ tentativa' = 1
                         /\ pc' = "tentativa"
                         /\ resultado' = "None"
            /\ UNCHANGED <<proxima_execucao, running, jobs, MAX_TENTATIVAS, fonte,
                           novos_atletas, idx, postados_com_sucesso, foto_path,
                           card_path, sucesso, feitas, buscou, soCurto, processou,
                           esperados, todosVistos, snap, chamou, postagens,
                           novos_postados, supVars, hashVars>>

\* the well-formed records of a batch whose fingerprint the ledger does not hold
Desconhecidos(lote, ledger) ==
    {k \in 1..Len(lote) :
        BemFormado(lote[k]) /\ gerar_hash_atleta(lote[k]) \notin DOMAIN ledger}

\* a batch with records, every one of them in the ledger
JaPostados(lote, ledger) ==
    /\ lote # <<>>
    /\ \A k \in 1..Len(lote) :
          BemFormado(lote[k]) /\ gerar_hash_atleta(lote[k]) \in DOMAIN ledger

\* processar_resultados up to the loop over the new records: what it returns
\* at once (0), or "loop" when there are new records to post
Triagem(corpo, ledger) ==
    IF corpo.forma # "lista" \/ corpo.itens = <<>> THEN "0"
    ELSE IF \E k \in 1..Len(corpo.itens) : ~BemFormado(corpo.itens[k]) THEN "0"
    ELSE IF NovosAtletas(corpo.itens, ledger) = <<>> THEN "0"
    ELSE "loop"

(***************************************************************************)
(* One pass of the loop over the CAPTCHA attempts; an accepted response is *)
(* handed to processar_resultados, whose classification is done here.      *)
(***************************************************************************)
Tentativa ==
    /\ pc = "tentativa"
    /\ \E captchaOK \in BOOLEAN, texto \in Textos, busca \in Buscas(fonte) :
        LET curto == captchaOK /\ Len(texto) < MinCaptcha
            enviou == captchaOK /\ ~curto
            aceito == enviou /\ busca.tipo = "resp" /\ ~busca.captcha
            limite == LimiteTentativas(MAX_TENTATIVAS)
            triagem == Triagem(busca.corpo, historico)
        IN  /\ feitas' = feitas + 1
            /\ buscou' = (buscou \/ enviou)
            /\ soCurto' = (soCurto /\ curto)
            /\ IF aceito
               THEN /\ processou' = processou + 1
                    /\ snap' = [hist |-> historico, arq |-> arquivo]
                    /\ esperados' = Cardinality(Desconhecidos(busca.corpo.itens, historico))
                    /\ todosVistos' = JaPostados(busca.corpo.itens, historico)
                    /\ UNCHANGED tentativa
                    /\ IF triagem = "loop"
                       THEN /\ novos_atletas' = NovosAtletas(busca.corpo.itens, historico)
                            /\ idx' = 1
                            /\ pc' = "foto"
                            /\ UNCHANGED resultado
                            /\ UNCHANGED novos_postados
                       ELSE /\ FimBusca("True")
                            /\ novos_postados' = 0
                            /\ UNCHANGED <<novos_atletas, idx>>
               ELSE /\ UNCHANGED <<processou, snap, esperados, todosVistos,
                                    novos_atletas, idx, novos_postados>>
                    /\ IF tentativa < limite
                       THEN /\ tentativa' = tentativa + 1
                            /\ UNCHANGED <<pc, resultado>>
                       ELSE /\ FimBusca("False")
                            /\ UNCHANGED tentativa
    /\ UNCHANGED <<selfVars, envVars, disparo, historico, postados_com_sucesso,
                   foto_path, card_path, sucesso, pubs, ioFalhou,
                   retornoLimpeza, chamou, postagens, propagou, supVars,
                   hashVars, csrf_token>>

(***************************************************************************)
(* The loop over the new records, one step per capability.                 *)
(***************************************************************************)
atleta == novos_atletas[idx]

\* what no step of the record loop changes
ForaDoLaco ==
    <<selfVars, relogio, jobs, MAX_TENTATIVAS, fonte, disparo, tentativa,
      novos_atletas, retornoLimpeza, feitas, buscou, soCurto,
      processou, esperados, todosVistos, snap, propagou, supVars,
      hashVars, csrf_token>>

\* line 239: the ledger is saved once a record of the batch has been posted
AposRegistro(postados) == IF postados > 0 THEN "salvar" ELSE "limpar"

\* foto_path = baixar_foto_atleta(...)
baixar_foto_atleta ==
    /\ pc = "foto"
    /\ \E saida \in SaidasCaminho :
        /\ chamou' = {"baixar_foto_atleta"}
        /\ foto_path' = IF saida = "caminho" THEN "foto" ELSE SemCaminho
        /\ pc' = IF saida = "erro" THEN "limpar" ELSE "card"
    /\ UNCHANGED <<ForaDoLaco, arquivo, historico, idx, postados_com_sucesso,
                   card_path, sucesso, resultado, novos_postados, pubs, ioFalhou,
                   postagens>>

\* card_path = criar_card_atleta(atleta, foto_path); if card_path: ... else: ...
criar_card_atleta ==
    /\ pc = "card"
    /\ \E saida \in SaidasCaminho :
        /\ chamou' = chamou \cup {"criar_card_atleta"}
        /\ card_path' = IF saida = "caminho" THEN "card" ELSE SemCaminho
        /\ pc' = CASE saida = "erro" -> "limpar"
                   [] saida = "caminho" -> "postar"
                   [] OTHER -> AposRegistro(postados_com_sucesso)
    /\ UNCHANGED <<ForaDoLaco, arquivo, historico, idx, postados_com_sucesso,
                   foto_path, sucesso, resultado, novos_postados, pubs, ioFalhou,
                   postagens>>

\* the entry made whatever postar_no_x returned
AposPostagemSemTeste(ledger, a, agora, saida) ==
    IF saida = "erro" THEN ledger ELSE Registrar(ledger, a, agora)

\* if sucesso: historico[hash_atleta] = {...}
AposPostagem(ledger, a, agora, saida) ==
    IF saida = "True" THEN Registrar(ledger, a, agora) ELSE ledger

\* if sucesso: postados_com_sucesso += 1
Contagem(postados, saida) == IF saida = "True" THEN postados + 1 ELSE postados

\* sucesso = postar_no_x(atleta, card_path); on success the entry joins the ledger
postar_no_x ==
    /\ pc = "postar"
    /\ \E saida \in SaidasPostagem :
        /\ chamou' = chamou \cup {"postar_no_x"}
        /\ postagens' = postagens + 1
        /\ sucesso' = (saida = "True")
        /\ historico' = AposPostagem(historico, atleta, relogio, saida)
        /\ postados_com_sucesso' = Contagem(postados_com_sucesso, saida)
        /\ pubs' = IF saida = "True"
                   THEN [pubs EXCEPT ![gerar_hash_atleta(atleta)] = MaisUm(@)]
                   ELSE pubs
        /\ pc' = IF saida = "erro" THEN "limpar"
                 ELSE AposRegistro(Contagem(postados_com_sucesso, saida))
    /\ UNCHANGED <<ForaDoLaco, arquivo, idx, foto_path, card_path, resultado,
                   novos_postados, ioFalhou>>

\* if postados_com_sucesso > 0: self.salvar_historico(historico), the open
SalvarAposPostagem ==
    /\ pc = "salvar"
    /\ \E abriu \in BOOLEAN :
        /\ arquivo' = abrir_escrita(arquivo, abriu)
        /\ ioFalhou' = (ioFalhou \/ ~abriu)
        /\ pc' = IF abriu THEN "gravar" ELSE "limpar"
    /\ UNCHANGED <<ForaDoLaco, historico, idx, postados_com_sucesso, foto_path,
                   card_path, sucesso, resultado, novos_postados, pubs, chamou,
                   postagens>>

\* ... and the json.dump into the open file
GravarAposPostagem ==
    /\ pc = "gravar"
    /\ \E gravou \in BOOLEAN :
        /\ arquivo' = json_dump(historico, gravou)
        /\ ioFalhou' = (ioFalhou \/ ~gravou)
    /\ pc' = "limpar"
    /\ UNCHANGED <<ForaDoLaco, historico, idx, postados_com_sucesso, foto_path,
                   card_path, sucesso, resultado, novos_postados, pubs, chamou,
                   postagens>>

\* the call limpar_arquivos_atleta(foto_path, card_path)
Chamada(foto, card) == "limpar_arquivos_atleta(" \o foto \o ", " \o card \o ")"

\* the cleanup made only for a record that got its card
ChamaLimpezaSoCard(foto, card) == card # SemCaminho

\* if foto_path or card_path:
ChamaLimpeza(foto, card) == foto # SemCaminho \/ card # SemCaminho

\* finally: limpar_arquivos_atleta when a path was obtained, then the next
\* record; an exception of the cleanup leaves the loop (processar_resultados
\* returns 0 from its outer except).  The locals of the record end here.
limpar_arquivos_atleta ==
    /\ pc = "limpar"
    /\ \E limpezaOK \in BOOLEAN :
        LET chama == ChamaLimpeza(foto_path, card_path)
        IN  /\ chamou' = IF chama THEN {Chamada(foto_path, card_path)} ELSE {}
            /\ foto_path' = SemCaminho
            /\ card_path' = SemCaminho
            /\ sucesso' = FALSE
            /\ IF chama /\ ~limpezaOK
               THEN /\ FimBusca("True")
                    /\ novos_postados' = 0
                    /\ UNCHANGED idx
               ELSE IF idx < Len(novos_atletas)
                    THEN /\ idx' = idx + 1
                         /\ pc' = "foto"
                         /\ UNCHANGED <<resultado, novos_postados>>
                    ELSE /\ pc' = "final"
                         /\ UNCHANGED <<idx, resultado, novos_postados>>
    /\ UNCHANGED <<ForaDoLaco, arquivo, historico, postados_com_sucesso, pubs,
                   ioFalhou, postagens>>

\* the exception of the save not caught in salvar_historico: the outer except
\* of processar_resultados returns 0
RetornoSemExcept(postados, gravou) == IF gravou THEN postados ELSE 0

\* return postados_com_sucesso: salvar_historico has caught what the save raised
Retorno(postados, gravou) == postados

\* the save after the loop, the open; when it fails the count is returned
SalvarFinal ==
    /\ pc = "final"
    /\ \E abriu \in BOOLEAN :
        /\ arquivo' = abrir_escrita(arquivo, abriu)
        /\ ioFalhou' = (ioFalhou \/ ~abriu)
        /\ IF abriu
           THEN /\ pc' = "gravar_final"
                /\ UNCHANGED <<resultado, novos_postados>>
           ELSE /\ FimBusca("True")
                /\ novos_postados' = Retorno(postados_com_sucesso, FALSE)
    /\ UNCHANGED <<ForaDoLaco, historico, idx, postados_com_sucesso, foto_path,
                   card_path, sucesso, pubs, chamou, postagens>>

\* ... the json.dump, and the return of the count
GravarFinal ==
    /\ pc = "gravar_final"
    /\ \E gravou \in BOOLEAN :
        /\ arquivo' = json_dump(historico, gravou)
        /\ ioFalhou' = (ioFalhou \/ ~gravou)
        /\ novos_postados' = Retorno(postados_com_sucesso, gravou)
    /\ FimBusca("True")
    /\ UNCHANGED <<ForaDoLaco, historico, idx, postados_com_sucesso, foto_path,
                   card_path, sucesso, pubs, chamou, postagens>>

(***************************************************************************)
(* The tail of job_wrapper: calcular_proxima_execucao; then the scheduler, *)
(* when it made the call, sets the job's next_run.  The locals of the      *)
(* cycle are gone.                                                         *)
(***************************************************************************)
ProximaExecucao ==
    /\ pc = "fim"
    /\ proxima_execucao' = calcular_proxima_execucao(jobs, relogio)
    /\ jobs' = IF disparo = "agenda" THEN Reagendar(jobs, jobs[1].id, relogio) ELSE jobs
    /\ pc' = "idle"
    /\ historico' = Vazio
    /\ tentativa' = 0
    /\ csrf_token' = "None"
    /\ novos_atletas' = <<>>
    /\ idx' = 0
    /\ postados_com_sucesso' = 0
    /\ foto_path' = SemCaminho
    /\ card_path' = SemCaminho
    /\ sucesso' = FALSE
    /\ feitas' = 0
    /\ buscou' = FALSE
    /\ soCurto' = TRUE
    /\ processou' = 0
    /\ esperados' = 0
    /\ todosVistos' = FALSE
    /\ snap' = [hist |-> Vazio, arq |-> Ausente]
    /\ chamou' = {}
    /\ postagens' = 0
    /\ resultado' = "None"
    /\ novos_postados' = None
    /\ retornoLimpeza' = FALSE
    /\ UNCHANGED <<execucoes, ultima_execucao, ultimo_dia_verificado, running,
                   arquivo, relogio, MAX_TENTATIVAS, fonte, disparo, pubs, ioFalhou,
                   propagou, supVars, hashVars>>

Next ==
    \/ job_wrapper
    \/ Tentativa
    \/ baixar_foto_atleta
    \/ criar_card_atleta
    \/ postar_no_x
    \/ SalvarAposPostagem
    \/ GravarAposPostagem
    \/ limpar_arquivos_atleta
    \/ SalvarFinal
    \/ GravarFinal
    \/ ProximaExecucao

Spec == Init /\ [][Next]_vars

(***************************************************************************)
(* SpecBusca: the search loop alone, with every configured limit, against  *)
(* a remote source that lists no record.                                   *)
(***************************************************************************)
InitBusca ==
    /\ Partida
    /\ PartidaArquivo({Ausente, Gravado(Vazio)})
    /\ AposAgendar
    /\ MAX_TENTATIVAS \in ConfiguracoesMaxBusca
    /\ fonte = CorposSemRegistros

NextBusca ==
    \/ job_wrapper
    \/ Tentativa
    \/ ProximaExecucao

SpecBusca == InitBusca /\ [][NextBusca]_vars


(***************************************************************************)
(* SpecAceite: the whole cycle with a second attempt at hand, against a    *)
(* remote source that lists one record at most.                            *)
(***************************************************************************)
InitAceite ==
    /\ Partida
    /\ PartidaArquivo(ArquivosIniciais)
    /\ AposAgendar
    /\ MAX_TENTATIVAS = 2
    /\ fonte = CorposDeUm

SpecAceite == InitAceite /\ [][Next]_vars

(***************************************************************************)
(* SpecSup: the supervisor.  iniciar_monitoramento runs in the main        *)
(* context, monitor_loop in the background threads it launches, and        *)
(* parar_monitoramento is called from outside at any time.  A cycle is its *)
(* begin (counter, timestamp) and its end (calcular_proxima_execucao).     *)
(***************************************************************************)
pipeVars ==
    <<ultimo_dia_verificado, arquivo, MAX_TENTATIVAS, fonte, cicloVars, histVars,
      hashVars>>

InitSup ==
    /\ Partida
    /\ PartidaArquivo({Ausente})
    /\ mainpc = "fora"
    /\ inicios = 0
    /\ jobs = <<>>
    /\ MAX_TENTATIVAS = 1
    /\ fonte = CorposSemRegistros

\* the head of job_wrapper, run by context c for job id
ComecaJob(c, id) ==
    /\ execucoes' = execucoes + 1
    /\ ultima_execucao' = relogio
    /\ emJob' = [emJob EXCEPT ![c] = id]

\* iniciar_monitoramento up to the direct call of job_wrapper
iniciar_monitoramento ==
    /\ mainpc = "fora"
    /\ IF running
       THEN UNCHANGED <<selfVars, jobs, supVars>>
       ELSE /\ inicios < MaxThreads
            /\ inicios' = inicios + 1
            /\ jobs' = <<Job(inicios + 1, relogio)>>
            /\ ComecaJob(Principal, inicios + 1)
            /\ mainpc' = "job_inicial"
            /\ UNCHANGED <<proxima_execucao, running, tpc, devido>>
    /\ UNCHANGED <<relogio, pipeVars>>

\* the direct call returns: running = True and the thread is started
lanca_thread ==
    /\ mainpc = "job_inicial"
    /\ proxima_execucao' = calcular_proxima_execucao(jobs, relogio)
    /\ emJob' = [emJob EXCEPT ![Principal] = 0]
    /\ running' = TRUE
    /\ tpc' = [tpc EXCEPT ![inicios] = "check"]
    /\ mainpc' = "dormindo"
    /\ UNCHANGED <<execucoes, ultima_execucao, jobs, relogio, inicios, devido,
                   pipeVars>>

\* while self.running: time.sleep(60) sees the flag down and returns
retorna ==
    /\ mainpc = "dormindo"
    /\ ~running
    /\ mainpc' = "fora"
    /\ UNCHANGED <<selfVars, jobs, relogio, tpc, emJob, inicios, devido, pipeVars>>

\* parar_monitoramento; the join waits 5 seconds at most and kills nothing
parar_monitoramento ==
    /\ mainpc # "saiu"
    /\ IF running
       THEN /\ running' = FALSE
            /\ jobs' = <<>>
       ELSE UNCHANGED <<running, jobs>>
    /\ UNCHANGED <<execucoes, ultima_execucao, proxima_execucao, relogio, supVars,
                   pipeVars>>

\* SIGINT or SIGTERM while the main context sleeps in its loop: signal_handler
\* calls sys.exit(0); SystemExit is no Exception and, the handler being
\* installed, no KeyboardInterrupt is raised, so neither except clause of
\* iniciar_monitoramento nor the one of main takes it: the process exits and
\* its daemon threads end with it
signal_handler ==
    /\ mainpc = "dormindo"
    /\ mainpc' = "saiu"
    /\ tpc' = [t \in Threads |-> IF tpc[t] = "none" THEN "none" ELSE "done"]
    /\ emJob' = [c \in Contextos |-> 0]
    /\ devido' = [t \in Threads |-> 0]
    /\ UNCHANGED <<selfVars, jobs, relogio, inicios, pipeVars>>

\* the jobs schedule.run_pending finds due
Devidos(agendados, agora) ==
    {k \in DOMAIN agendados : agora >= agendados[k].next_run}

\* while self.running: the flag is read, then schedule.run_pending is called
monitor_loop(t) ==
    /\ tpc[t] = "check"
    /\ tpc' = [tpc EXCEPT ![t] = IF running THEN "pending" ELSE "done"]
    /\ UNCHANGED <<selfVars, jobs, relogio, mainpc, emJob, inicios, devido, pipeVars>>

\* schedule.run_pending: sorted(job for job in self.jobs if job.should_run),
\* the jobs due taken from the list as it is now
run_pending(t) ==
    /\ tpc[t] = "pending"
    /\ IF Devidos(jobs, relogio) # {}
       THEN /\ devido' = [devido EXCEPT
                            ![t] = jobs[CHOOSE k \in Devidos(jobs, relogio) : TRUE].id]
            /\ tpc' = [tpc EXCEPT ![t] = "devido"]
       ELSE /\ tpc' = [tpc EXCEPT ![t] = "sleep"]
            /\ UNCHANGED devido
    /\ UNCHANGED <<selfVars, jobs, relogio, mainpc, emJob, inicios, pipeVars>>

\* ... and the job found due is run: Job.run calls job_wrapper
run_job(t) ==
    /\ tpc[t] = "devido"
    /\ ComecaJob(t, devido[t])
    /\ devido' = [devido EXCEPT ![t] = 0]
    /\ tpc' = [tpc EXCEPT ![t] = "job"]
    /\ UNCHANGED <<proxima_execucao, running, jobs, relogio, mainpc, inicios, pipeVars>>

\* job_wrapper returns to Job.run, which sets next_run; then time.sleep(30)
fim_job(t) ==
    /\ tpc[t] = "job"
    /\ proxima_execucao' = calcular_proxima_execucao(jobs, relogio)
    /\ jobs' = Reagendar(jobs, emJob[t], relogio)
    /\ emJob' = [emJob EXCEPT ![t] = 0]
    /\ tpc' = [tpc EXCEPT ![t] = "sleep"]
    /\ UNCHANGED <<execucoes, ultima_execucao, running, relogio, mainpc, inicios,
                   devido, pipeVars>>

\* time.sleep(30) is over
acorda(t) ==
    /\ tpc[t] = "sleep"
    /\ tpc' = [tpc EXCEPT ![t] = "check"]
    /\ UNCHANGED <<selfVars, jobs, relogio, mainpc, emJob, inicios, devido, pipeVars>>

\* a schedule period goes by
Tique ==
    /\ relogio < MaxRelogio
    /\ relogio' = relogio + 1
    /\ UNCHANGED <<selfVars, jobs, supVars, pipeVars>>

NextSup ==
    \/ iniciar_monitoramento
    \/ lanca_thread
    \/ retorna
    \/ parar_monitoramento
    \/ signal_handler
    \/ \E t \in Threads : monitor_loop(t)
    \/ \E t \in Threads : run_pending(t)
    \/ \E t \in Threads : run_job(t)
    \/ \E t \in Threads : fim_job(t)
    \/ \E t \in Threads : acorda(t)
    \/ Tique

SpecSup == InitSup /\ [][NextSup]_vars

(***************************************************************************)
(* SpecHash: gerar_hash_atleta applied to two records, one after the       *)
(* other.  The records carry key fields that hold the separator, key       *)
(* fields that are each other's swap, and fields that are not keys.        *)
(***************************************************************************)
CodigosHash == {"1", "7", "1_7"}
ContratosHash == {"1", "7", "7_7"}
ClubesHash == {"x", "y"}

\* atleta_data: the three key fields, the name and one more attribute
AtletasHash ==
    [codigo_atleta : CodigosHash, contrato_numero : ContratosHash,
     data_publicacao : Datas, nome : Nomes, clube : ClubesHash]

InitHash ==
    /\ Partida
    /\ PartidaArquivo({Ausente})
    /\ mainpc = "fora"
    /\ inicios = 0
    /\ jobs = <<>>
    /\ MAX_TENTATIVAS = 1
    /\ fonte = CorposSemRegistros

\* a caller has a record at hand
EscolherAtleta ==
    /\ Len(par) < 2
    /\ Len(digests) = Len(par)
    /\ \E atleta_data \in AtletasHash : par' = Append(par, atleta_data)
    /\ UNCHANGED <<selfVars, envVars, cicloVars, histVars, supVars, digests>>

\* hash_atleta = self.gerar_hash_atleta(atleta)
ChamarHash ==
    /\ Len(digests) < Len(par)
    /\ digests' = Append(digests, gerar_hash_atleta(par[Len(par)]))
    /\ UNCHANGED <<selfVars, envVars, cicloVars, histVars, supVars, par>>

NextHash ==
    \/ EscolherAtleta
    \/ ChamarHash

SpecHash == InitHash /\ [][NextHash]_vars

(***************************************************************************)
(* Properties of the processing of a batch (Spec).                         *)
(***************************************************************************)

\* C1: as long as no day rollover happened and every read and write of the
\* ledger succeeded, no fingerprint has more than one successful publish call,
\* whether its records came in different cycles or in the same raw batch.
C1_NoDoublePublish ==
    ~ioFalhou => \A h \in Hashes : pubs[h] <= 1

\* C2: when processar_resultados has returned, the processing of every new
\* record of the batch it was given was begun: no exception raised for one
\* record (classification, photo, card, publish, cleanup) ended the batch.
C2_FailureIsolation ==
    (pc = "fim" /\ processou = 1) => idx = esperados

\* the record between its successful postar_no_x and the end of the save that
\* follows
EmVoo(h) ==
    /\ pc \in {"salvar", "gravar"}
    /\ sucesso
    /\ h = gerar_hash_atleta(atleta)

\* every fingerprint posted since the last rollover, the one in flight
\* excepted, is in the persisted store
PostadosNoArquivo ==
    \A h \in Hashes : (pubs[h] >= 1 /\ ~EmVoo(h)) => h \in DOMAIN arquivo.dados

\* C4: at every point of a cycle, no read or write of the ledger having
\* failed, every record whose publish succeeded since the last rollover, the
\* one in flight excepted, is in the persisted store.
C4_CrashDurability == ~ioFalhou => PostadosNoArquivo

C10_Idempotence ==
    todosVistos =>
        /\ pc = "fim"
        /\ novos_postados = 0
        /\ postagens = 0
        /\ historico = snap.hist
        /\ arquivo = snap.arq

\* such a batch, in a cycle after the first
C10_Witness ==
    /\ todosVistos
    /\ execucoes >= 2
    /\ novos_postados = 0
    /\ snap.hist # Vazio

\* C11: the count processar_resultados returns is the number of records of
\* the batch whose postar_no_x succeeded.
C11_PublishAccounting ==
    (pc = "fim" /\ processou = 1) => novos_postados = postados_com_sucesso

\* C13: when processar_resultados has returned, the store holds every entry
\* it held when processar_resultados was called, after the rollover of the
\* cycle: load and saves remove none.
C13_SoleResetAuthority ==
    (pc = "fim" /\ processou = 1) =>
        (DOMAIN snap.arq.dados) \subseteq (DOMAIN arquivo.dados)

\* C14: for a record whose baixar_foto_atleta gave no path (it returned
\* None or raised), neither criar_card_atleta nor postar_no_x is called.
C14_AbortOnMediaFailure ==
    ("baixar_foto_atleta" \in chamou /\ foto_path = SemCaminho) =>
        /\ "criar_card_atleta" \notin chamou
        /\ "postar_no_x" \notin chamou

\* C18: a step of salvar_historico, failed or not, raises nothing, leaves the
\* working mapping and the count of posted records as they are and goes on
\* to the cleanup of the record (to the return of the count, after the
\* loop); a save that succeeds writes the whole working mapping, the records
\* posted before a failed save included.
C18_SaveFailureContained ==
    [][/\ pc \in {"salvar", "gravar", "final", "gravar_final"} =>
             /\ historico' = historico
             /\ postados_com_sucesso' = postados_com_sucesso
             /\ ~propagou'
       /\ (pc \in {"gravar", "gravar_final"} /\ arquivo'.kind = "ok") =>
             arquivo'.dados = historico
       /\ pc = "salvar" => pc' \in {"gravar", "limpar"}
       /\ pc = "gravar" => pc' = "limpar"
       /\ pc = "final" => pc' \in {"gravar_final", "fim"}
       /\ pc = "gravar_final" => pc' = "fim"
       /\ (pc \in {"final", "gravar_final"} /\ pc' = "fim") =>
             /\ resultado' = "True"
             /\ novos_postados' = postados_com_sucesso
       /\ (pc \notin {"idle", "fim"} /\ sucesso) =>
             gerar_hash_atleta(atleta) \in DOMAIN historico]_vars

\* the second record of a batch in hand after the save of the first, posted,
\* failed: the first is in the working mapping and not in the store
C18_Witness ==
    /\ pc \in {"foto", "card", "postar"}
    /\ idx = 2
    /\ postados_com_sucesso = 1
    /\ gerar_hash_atleta(novos_atletas[1]) \in DOMAIN historico
    /\ gerar_hash_atleta(novos_atletas[1]) \notin DOMAIN arquivo.dados

\* the capabilities of a record before its cleanup
AntesDaLimpeza == {"baixar_foto_atleta", "criar_card_atleta", "postar_no_x"}

\* C19: whatever happens to a record, its processing ends in the finally
\* block before the next record begins; there limpar_arquivos_atleta is
\* called, once and with the two paths of the record, exactly when one of
\* them was obtained; it is not called before.
C19_UnconditionalCleanup ==
    [][/\ pc = "limpar" =>
             chamou' = IF foto_path # SemCaminho \/ card_path # SemCaminho
                       THEN {Chamada(foto_path, card_path)}
                       ELSE {}
       /\ pc \in {"foto", "card", "postar", "salvar", "gravar"} =>
             /\ chamou' \subseteq AntesDaLimpeza
             /\ idx' = idx
             /\ pc' \in {"card", "postar", "salvar", "gravar", "limpar"}]_vars

\* the cleanup was called with the photo of a record that got no card
C19_Witness ==
    /\ pc \in {"foto", "final"}
    /\ chamou = {Chamada("foto", SemCaminho)}

\* C20: when pegar_csrf_token raises, the cycle ends at once with the result
\* False, having made no CAPTCHA attempt, no search request and no post; the
\* only step after it is the end of the cycle, so the token is not asked for
\* again in that cycle; the token is a local of the cycle, asked for only at
\* its start, and every cycle that reaches the try asks for it anew.
C20_SessionErrorEndsCycle ==
    [][/\ csrf_token' = "falhou" =>
             /\ pc' = "fim"
             /\ resultado' = "False"
             /\ feitas' = 0
             /\ ~buscou'
             /\ processou' = 0
             /\ postagens' = 0
       /\ csrf_token = "falhou" => (pc' = "idle" /\ csrf_token' = "None")
       /\ (csrf_token' # csrf_token /\ csrf_token' # "None") =>
             (pc = "idle" /\ csrf_token = "None")
       /\ (pc = "idle" /\ pc' # "idle" /\ resultado' # "erro") =>
             csrf_token' \in {"token", "falhou"}]_vars

\* a cycle after the first ended because pegar_csrf_token raised
C20_Witness ==
    /\ csrf_token = "falhou"
    /\ pc = "fim"
    /\ resultado = "False"
    /\ execucoes >= 2

\* C21: once a job_wrapper has completed, called directly or by the
\* scheduler, proxima_execucao is strictly later than ultima_execucao, the
\* start of that cycle.
C21_NextRunInFuture ==
    (pc = "idle" /\ execucoes >= 1) => proxima_execucao > ultima_execucao

(***************************************************************************)
(* Properties of the search loop (SpecBusca).                              *)
(***************************************************************************)

\* C6: a cycle makes at most min(MAX_TENTATIVAS, 50) attempts; a cycle that
\* got its token and whose OCR texts were all shorter than 3 characters ends
\* after exactly that many attempts, with no search sent and with failure.
C6_RetryBound ==
    /\ feitas <= Min(MAX_TENTATIVAS, LimiteServidor)
    /\ (pc = "fim" /\ tentativa >= 1 /\ soCurto) =>
          /\ feitas = Min(MAX_TENTATIVAS, LimiteServidor)
          /\ ~buscou
          /\ resultado = "False"

\* such a cycle with a configured limit above the server limit
C6_Witness ==
    /\ pc = "fim"
    /\ tentativa >= 1
    /\ soCurto
    /\ MAX_TENTATIVAS > LimiteServidor
    /\ feitas = LimiteServidor

(***************************************************************************)
(* Properties of the steps that call job_wrapper (Spec).                   *)
(***************************************************************************)

\* a step that is a call of job_wrapper, hence of limpar_historico_se_novo_dia
ChamouJob == pc = "idle" /\ pc' # "idle"

\* the date the call observes
DiaDaChamada == Dia(ultima_execucao')

\* the first call, and a call with the date of the baseline
SemRollover ==
    /\ ultimo_dia_verificado = None =>
          /\ ultimo_dia_verificado' = DiaDaChamada
          /\ ~retornoLimpeza'
          /\ arquivo' = arquivo
    /\ (ultimo_dia_verificado # None /\ DiaDaChamada = ultimo_dia_verificado) =>
          /\ ~retornoLimpeza'
          /\ arquivo' = arquivo
          /\ ultimo_dia_verificado' = ultimo_dia_verificado

\* the store deleted, the baseline moved, True returned
Descartou ==
    /\ retornoLimpeza'
    /\ arquivo' = Ausente
    /\ ultimo_dia_verificado' = DiaDaChamada

\* os.remove raised: False returned, store and baseline as they were
NaoRemoveu ==
    /\ arquivo.kind # "absent"
    /\ ~retornoLimpeza'
    /\ arquivo' = arquivo
    /\ ultimo_dia_verificado' = ultimo_dia_verificado

\* C7 as stated: a call with a date other than the baseline deletes the
\* store, moves the baseline and reports true.
C7_DayRolloverAsStated ==
    [][ChamouJob =>
        /\ SemRollover
        /\ (ultimo_dia_verificado # None /\ DiaDaChamada # ultimo_dia_verificado)
              => Descartou]_vars

\* C7: the first call records the date as baseline, reports false and leaves
\* the store; a call with the date of the baseline reports false and leaves
\* store and baseline; a call with another date deletes the store, moves the
\* baseline and reports true, unless the store exists and its deletion
\* fails: then it reports false and leaves store and baseline as they were.
C7_DayRollover ==
    [][ChamouJob =>
        /\ SemRollover
        /\ (ultimo_dia_verificado # None /\ DiaDaChamada # ultimo_dia_verificado)
              => (Descartou \/ NaoRemoveu)]_vars

\* a call that found another date has deleted the store
C7_Witness ==
    /\ pc # "idle"
    /\ retornoLimpeza
    /\ arquivo = Ausente
    /\ ultimo_dia_verificado = Dia(relogio)

\* the cycle observes another date than the cycle before it
MudouDia == execucoes >= 1 /\ DiaDaChamada # Dia(ultima_execucao)

\* the deletion of an earlier cycle failed: the baseline is older than the
\* date that cycle observed
Pendente ==
    /\ ultimo_dia_verificado # None
    /\ execucoes >= 1
    /\ ultimo_dia_verificado # Dia(ultima_execucao)

\* C8 as stated: a cycle discards the store exactly when it observes another
\* date than the cycle before it.
C8_ExactlyOnceAsStated ==
    [][ChamouJob => (retornoLimpeza' <=> MudouDia)]_vars

\* C8: a cycle discards the store exactly when it observes another date than
\* the baseline and its deletion does not fail: that is the first cycle of
\* the new date, or, after the deletion failed, the first later cycle whose
\* deletion succeeds; a cycle that observes the date of the baseline never
\* discards.
C8_ExactlyOnce ==
    [][ChamouJob =>
        /\ retornoLimpeza' <=>
              ((MudouDia \/ Pendente) /\ ultimo_dia_verificado' = DiaDaChamada)
        /\ (execucoes >= 1 /\ DiaDaChamada = ultimo_dia_verificado)
              => (~retornoLimpeza' /\ arquivo' = arquivo)]_vars

\* the third cycle discards what the second, the first of the new date,
\* could not delete
C8_Witness ==
    /\ pc # "idle"
    /\ retornoLimpeza
    /\ execucoes = 3
    /\ Dia(relogio) = Dia(relogio - Intervalo)

\* C9: every call of job_wrapper, and no other step, adds one to execucoes
\* and sets ultima_execucao to the instant of the call; no error of the cycle
\* leaves job_wrapper; the end of a cycle, failed or not, leaves the
\* supervisor with its job scheduled for the next period.
C9_SupervisorContainment ==
    [][/\ ChamouJob => (execucoes' = execucoes + 1 /\ ultima_execucao' = relogio')
       /\ ~ChamouJob => UNCHANGED <<execucoes, ultima_execucao>>
       /\ ~propagou'
       /\ pc' # "crash"
       /\ pc = "fim" =>
             /\ pc' = "idle"
             /\ jobs' # <<>>
             /\ jobs'[1].next_run = relogio' + Intervalo
             /\ UNCHANGED <<execucoes, ultima_execucao, ultimo_dia_verificado,
                            running>>]_vars

\* a cycle that raised outside the try of buscar_e_processar_novos, run after
\* another cycle
C9_Witness ==
    /\ pc = "fim"
    /\ resultado = "erro"
    /\ ~propagou
    /\ execucoes >= 2

(***************************************************************************)
(* Properties of a cycle with attempts left (SpecAceite).                  *)
(***************************************************************************)

\* C17: processar_resultados is called once per cycle at most, and from the
\* acceptance of a response to the end of buscar_e_processar_novos no
\* further attempt is made and no further response handed over, whatever
\* the processing of the batch does.
C17_OneAcceptedSearch ==
    [][/\ processou' <= 1
       /\ (processou = 1 /\ pc # "fim") =>
             /\ feitas' = feitas
             /\ processou' = 1
             /\ pc' # "tentativa"]_vars

\* a cycle that ended after the response of its first attempt was accepted
\* and a record of it posted, with an attempt left
C17_Witness ==
    /\ pc = "fim"
    /\ processou = 1
    /\ feitas = 1
    /\ feitas < LimiteTentativas(MAX_TENTATIVAS)
    /\ postagens >= 1

(***************************************************************************)
(* Properties of gerar_hash_atleta (SpecHash).                             *)
(***************************************************************************)

\* the three key fields of a record
Chave(r) == <<r.codigo_atleta, r.contrato_numero, r.data_publicacao>>

\* the key fields in that order, joined by the separator
Juncao(r) == r.codigo_atleta \o "_" \o r.contrato_numero \o "_" \o r.data_publicacao

\* C12: two records with equal key fields get the same fingerprint whatever
\* their other fields; two records get the same fingerprint exactly when the
\* joins of their key fields, in that order, are the same string.
C12_Determinism ==
    Len(digests) = 2 =>
        /\ Chave(par[1]) = Chave(par[2]) => digests[1] = digests[2]
        /\ digests[1] = digests[2] <=> Juncao(par[1]) = Juncao(par[2])

\* two records that differ in name and attribute only, with one fingerprint
C12_Witness ==
    /\ Len(digests) = 2
    /\ Chave(par[1]) = Chave(par[2])
    /\ par[1].nome # par[2].nome
    /\ par[1].clube # par[2].clube
    /\ digests[1] = digests[2]

(***************************************************************************)
(* Properties of the supervisor (SpecSup).                                 *)
(***************************************************************************)

\* C15: when the process has exited on a signal received in the sleep loop,
\* parar_monitoramento has been carried out: running is False and the
\* schedule is empty.
C15_SignalShutdown ==
    mainpc = "saiu" => (~running /\ jobs = <<>>)

\* parar_monitoramento was called on a running supervisor and
\* iniciar_monitoramento has not been called since
Parado ==
    /\ ~running
    /\ inicios >= 1
    /\ mainpc \in {"dormindo", "fora"}

\* C16: once the supervisor is stopped, and unless it is started again, no
\* step begins a new execution of job_wrapper.
C16_CooperativeStop ==
    [][(Parado /\ mainpc' # "job_inicial") => execucoes' = execucoes]_vars

\* C3: at no time are two executions of job_wrapper in progress.
C3_SingleActiveCycle ==
    Cardinality({c \in Contextos : emJob[c] # 0}) <= 1

=============================================================================
